---- MODULE Spec2Model ----
(***************************************************************************)
(* Token-bucket rate limiter (package limiter): the Redis-backed limiter,  *)
(* the in-memory limiter built on golang.org/x/time/rate, and the disabled *)
(* limiter, behind the Limiter interface.                                  *)
(*                                                                         *)
(* Time is counted in clock ticks since the Unix epoch; Second ticks make  *)
(* one second, so a time.Duration is a number of ticks.  Tokens of the     *)
(* Redis limiter are the float64 values of the code restricted to whole    *)
(* numbers (rates are whole numbers of tokens); tokens of a rate.Limiter   *)
(* are kept in units of 1/Second token, because it accrues limit tokens    *)
(* per second of elapsed time, whatever the configured interval.           *)
(***************************************************************************)
EXTENDS Integers, Sequences, FiniteSets, TLC

\* time.Second, in clock ticks (one tick is 500 ms)
Second == 2

\* const ( TypeRedis Type = iota << 1; TypeInMemory; TypeDisabled )
TypeRedis == 0
TypeInMemory == 2
TypeDisabled == 4

\* the clock runs from StartTime for at most MaxTicks ticks
MaxTicks == 3
StartTime == 1000 * Second

\* the largest n passed to AllowN / AllowNDynamic
MaxN == 2

Keys == {"k1", "k2"}
Callers == {"c1", "c2"}

\* the values of Config the limiter is constructed from
Types == {TypeRedis, TypeInMemory, TypeDisabled}
Rates == {0, 1}
Bursts == {0, 2}
Intervals == {0, 1, 3}
\* the (rate, burst) pairs callers pass to AllowDynamic / AllowNDynamic
DynLimits == {<<1, 1>>}
\* the override of the per-key example: AllowDynamic(k, 100.0, 50)
Override == <<100, 50>>

\* the nil interface value, the absent map entry
Nil == [nil |-> TRUE]

Min(a, b) == IF a < b THEN a ELSE b

(***************************************************************************)
(* Time and numbers as the Go runtime computes them.                       *)
(***************************************************************************)

\* time.Time.Truncate(d): round down to a multiple of d since the zero
\* time; the Unix epoch is a multiple of every interval used here, so the
\* multiples are those of the tick count.  d <= 0 returns t unchanged.
Truncate(t, d) == IF d <= 0 THEN t ELSE t - (t % d)

\* time.Time.Unix(): whole seconds since the epoch
Unix(t) == t \div Second

\* time.Unix(sec, 0)
TimeUnix(sec) == sec * Second

\* Go's integer division of Durations truncates toward zero
Quot(a, b) == IF a >= 0 THEN a \div b ELSE -((-a) \div b)

(***************************************************************************)
(* The textual encoding of list elements: redigo writes a float64 or an    *)
(* int64 argument in decimal and redis.Scan parses the bulk strings back.  *)
(* A text is a sequence of characters.                                     *)
(***************************************************************************)
DigitChars == <<"0", "1", "2", "3", "4", "5", "6", "7", "8", "9">>

IsDigit(c) == \E i \in 1..10 : DigitChars[i] = c

DigitVal(c) == (CHOOSE i \in 1..10 : DigitChars[i] = c) - 1

RECURSIVE FmtNat(_)
FmtNat(v) == IF v < 10 THEN <<DigitChars[v + 1]>>
             ELSE FmtNat(v \div 10) \o <<DigitChars[(v % 10) + 1]>>

\* strconv.AppendInt(v, 10), the encoding of an int64 argument
FmtInt(v) == IF v < 0 THEN <<"-">> \o FmtNat(-v) ELSE FmtNat(v)

\* strconv.AppendFloat(v, 'g', -1, 64) of a whole number below 1e21
FmtFloat(v) == FmtInt(v)

RECURSIVE ParseDigits(_)
ParseDigits(s) == IF Len(s) = 0 THEN 0
                  ELSE 10 * ParseDigits(SubSeq(s, 1, Len(s) - 1)) + DigitVal(s[Len(s)])

\* strconv.ParseInt(s, 10, 64)
ParseInt(s) ==
    LET neg == Len(s) > 0 /\ s[1] = "-"
        body == IF neg THEN Tail(s) ELSE s
    IN  IF Len(body) = 0 \/ \E i \in 1..Len(body) : ~IsDigit(body[i])
        THEN [ok |-> FALSE, val |-> 0]
        ELSE [ok |-> TRUE, val |-> IF neg THEN -ParseDigits(body) ELSE ParseDigits(body)]

\* strconv.ParseFloat(s, 64) on the texts that occur: decimal whole numbers
ParseFloat(s) == ParseInt(s)

\* a bulk string no number parses from (TestRedisScanError)
Garbage == <<<<"h">>, <<"i">>>>

(***************************************************************************)
(* The Redis list commands the limiter issues.                             *)
(***************************************************************************)

\* LRANGE key start stop (inclusive, zero-based) on the list stored at key
LRange(list, start, stop) == SubSeq(list, start + 1, Min(stop + 1, Len(list)))

\* LPUSH key v1 v2: each value is inserted at the head in turn, so the
\* last argument ends up first
LPush(list, v1, v2) == <<v2, v1>> \o list

\* an LSET that writes the head of the list whatever the index
LSetHead(list, index, v) == IF Len(list) > 0 THEN [list EXCEPT ![1] = v] ELSE list

\* LSET key index v; an index out of range is an error reply and no change
LSet(list, index, v) == IF index < Len(list) THEN [list EXCEPT ![index + 1] = v]
                        ELSE list

\* redis.Scan(resp, &tokens, &last)
Scan(resp) ==
    IF Len(resp) < 2 THEN [ok |-> FALSE, tokens |-> 0, last |-> 0]
    ELSE LET f == ParseFloat(resp[1])
             i == ParseInt(resp[2])
         IN  [ok |-> f.ok /\ i.ok, tokens |-> f.val, last |-> i.val]

(***************************************************************************)
(* golang.org/x/time/rate.Limiter, the bucket of the in-memory limiter: a  *)
(* bucket of size burst, initially full, refilled at limit tokens per      *)
(* second.  tokens is in units of 1/Second token, last in ticks.           *)
(***************************************************************************)

\* rate.NewLimiter(r, b); the zero time.Time of last is before every clock
\* reading, and the bucket is already full, so any earlier instant does
LimNew(r, b) == [limit |-> r, burst |-> b, tokens |-> b * Second, last |-> 0]

\* Limiter.advance(t): the tokens at t, not above burst
LimAdvance(lim, t) ==
    LET last == IF t < lim.last THEN t ELSE lim.last
        delta == IF lim.limit <= 0 THEN 0 ELSE (t - last) * lim.limit
    IN  Min(lim.tokens + delta, lim.burst * Second)

\* a SetBurstAt that resizes the bucket before it brings the tokens up to t
LimSetBurstEarly(lim, t, newBurst) ==
    [lim EXCEPT !.tokens = LimAdvance([lim EXCEPT !.burst = newBurst], t),
                !.last = t, !.burst = newBurst]

\* Limiter.SetBurstAt(t, newBurst)
LimSetBurstAt(lim, t, newBurst) ==
    [lim EXCEPT !.tokens = LimAdvance(lim, t), !.last = t, !.burst = newBurst]

\* Limiter.SetLimitAt(t, newLimit)
LimSetLimitAt(lim, t, newLimit) ==
    [lim EXCEPT !.tokens = LimAdvance(lim, t), !.last = t, !.limit = newLimit]

\* Limiter.AllowN(t, n): reserveN with no future reserve; ok iff n fits the
\* burst and the tokens at t cover n.  Only an allowed event changes state.
\* (A limit of 0 accrues nothing: the bucket then only spends what it holds.)
LimAllowN(lim, t, n) ==
    LET tokens == LimAdvance(lim, t) - n * Second
        ok == n <= lim.burst /\ tokens >= 0
    IN  [ok |-> ok,
         lim |-> IF ok THEN [lim EXCEPT !.tokens = tokens, !.last = t] ELSE lim]

(***************************************************************************)
(* State.                                                                  *)
(***************************************************************************)
VARIABLES
    l,          \* the Limiter New returned
    now,        \* the wall clock, time.Now(), in ticks
    store,      \* Redis: key -> the list stored at key (texts, head first)
    limiters,   \* inMemoryLimiter.limiters: key -> *rate.Limiter, or Nil
    call,       \* caller -> its call: position, locals, and what it did
    mon,        \* key -> what has been observed of the calls completed on it
    env         \* the Config given to New; who calls what, on which keys, with
                \* which arguments, for how long the clock runs, what is
                \* observed and whether commands can fail (faults)

vars == <<l, now, store, limiters, call, mon, env>>

Configs == [Type : Types, RateLimit : Rates, BurstLimit : Bursts,
            Interval : Intervals, FailOpen : BOOLEAN]

\* Type is an int: the values a Config can hold besides the three constants
\* (TestBadLimiterType passes -1)
AnyTypes == -1 .. 5

\* Configs of any Type, with the default interval
AnyConfigs == [Type : AnyTypes, RateLimit : Rates, BurstLimit : Bursts,
               Interval : {0}, FailOpen : BOOLEAN]

\* a factory whose switch ends in a default case that makes a Redis limiter
NewOrRedis(config) ==
    LET interval == IF config.Interval = 0 THEN Second ELSE config.Interval
    IN  CASE config.Type = TypeInMemory ->
               [type |-> TypeInMemory, rate |-> config.RateLimit,
                burst |-> config.BurstLimit, interval |-> interval]
          [] config.Type = TypeDisabled -> [type |-> TypeDisabled]
          [] OTHER ->
               [type |-> TypeRedis, rate |-> config.RateLimit, burst |-> config.BurstLimit,
                interval |-> interval, failOpen |-> config.FailOpen]

\* New(config)
New(config) ==
    LET interval == IF config.Interval = 0 THEN Second ELSE config.Interval
    IN  CASE config.Type = TypeRedis ->
               [type |-> TypeRedis, rate |-> config.RateLimit, burst |-> config.BurstLimit,
                interval |-> interval, failOpen |-> config.FailOpen]
          [] config.Type = TypeInMemory ->
               [type |-> TypeInMemory, rate |-> config.RateLimit,
                burst |-> config.BurstLimit, interval |-> interval]
          [] config.Type = TypeDisabled -> [type |-> TypeDisabled]
          [] OTHER -> Nil

\* A caller in no call.  Of a call: pc is its position; op, key, n, rate,
\* burst its arguments; conn the pooled connection; resp, tokens, tnow
\* (the code's now) the locals of allowN; fresh says the key was absent;
\* readAt and nowAt are the clock readings behind the elapsed time and
\* behind tnow; pre is the bucket found; applied says the server executed
\* the write; fail names the step that failed; ret is the result; lim is
\* the caller's limiter pointer, as the number of the bucket made for the key.
Idle == [pc |-> "idle", op |-> "", key |-> "", n |-> 0, rate |-> 0, burst |-> 0,
         conn |-> "none", resp |-> <<>>, fresh |-> FALSE, tokens |-> 0, lim |-> 0,
         readAt |-> 0, nowAt |-> 0, tnow |-> 0, pre |-> Nil, applied |-> FALSE,
         fail |-> "none", ret |-> FALSE]

\* nothing observed yet on a key
NoCalls == [seen |-> 0, first |-> Nil, wroteT |-> -1, t0 |-> -1, run |-> 0,
            walk |-> 0, walkT |-> -1, dynOK |-> FALSE, zeroB |-> -1, admitted |-> 0,
            made |-> 0, uniform |-> TRUE, since |-> -1, spent |-> 0,
            twin |-> Nil, paired |-> TRUE, agree |-> TRUE]

\* the observations a specification can keep
Watches == {"first", "wroteT", "run", "walk", "dynOK", "zeroB", "held", "twin"}

\* the configuration of the walkthrough: rate 1 per second, burst 2
WalkConfigs == {c \in Configs : c.RateLimit = 1 /\ c.BurstLimit = 2 /\ c.Interval = 0}

\* the walkthrough lasts three intervals
WalkTicks == 3 * Second

\* the methods of the Limiter interface
Methods == {"Allow", "AllowN", "AllowDynamic", "AllowNDynamic"}

\* one caller, c1, that calls every method
Solo == [p \in Callers |-> IF p = "c1" THEN Methods ELSE {}]

\* c1 calls every method while c2 calls Allow
Pair == [p \in Callers |-> IF p = "c1" THEN Methods ELSE {"Allow"}]

InitWith(ops, keys, configs, dyn, ns, ticks, watch, faults) ==
    /\ now = StartTime
    /\ store = [k \in Keys |-> <<>>]
    /\ limiters = [k \in Keys |-> Nil]
    /\ call = [p \in Callers |-> Idle]
    /\ mon = [k \in Keys |-> NoCalls]
    /\ \E config \in configs :
          /\ l = New(config)
          /\ env = [config |-> config, ops |-> ops, keys |-> keys,
                    dyn |-> dyn, ns |-> ns, ticks |-> ticks, watch |-> watch,
                    faults |-> faults]

\* one caller, one key, every configuration
Init == InitWith(Solo, {"k1"}, Configs, DynLimits, 0..MaxN, MaxTicks, {"first"}, BOOLEAN)

\* the same, with the history of each key observed
InitHistory ==
    InitWith(Solo, {"k1"}, Configs, DynLimits, 0..MaxN, MaxTicks,
             {"wroteT", "run", "zeroB"}, BOOLEAN)

\* a limiter made from a Config of any Type
InitNew ==
    InitWith(Solo, {"k1"}, AnyConfigs, DynLimits, {1}, MaxTicks, {}, BOOLEAN)

\* the configurations of the limiter two callers share: rate 1, burst 2
\* and the default interval
RaceConfigs ==
    {c \in Configs : c.RateLimit = 1 /\ c.BurstLimit = 2 /\ c.Interval = 0 /\ ~c.FailOpen}

\* two callers on one key and a server that answers every command, while
\* the clock passes one interval
InitRace ==
    InitWith(Pair, {"k1"}, RaceConfigs, DynLimits, {1}, Second, {}, {FALSE})

\* the configurations of the limiter whose clock is set back: rate 1, burst 2
SkewConfigs == {c \in Configs : c.RateLimit = 1 /\ c.BurstLimit = 2 /\ ~c.FailOpen}

\* the same two callers, with the tokens admitted in each interval observed
InitSerial ==
    InitWith(Pair, {"k1"}, RaceConfigs, DynLimits, {1}, Second, {"held"}, {FALSE})

\* one caller, with an in-memory limiter of the same Config run beside the
\* Redis limiter
InitTwin ==
    InitWith(Solo, {"k1"}, Configs, DynLimits, {1}, MaxTicks, {"twin"}, {FALSE})

\* the configurations of the limiter used on two keys: rate 1, burst 2 and
\* the default interval
KeysConfigs == {c \in Configs : c.RateLimit = 1 /\ c.BurstLimit = 2 /\ c.Interval = 0}

\* one caller, two keys and commands that can fail
InitKeys ==
    InitWith(Solo, Keys, KeysConfigs, DynLimits, {1}, Second, {}, BOOLEAN)

\* one caller and a server that answers every command
InitSkew == InitWith(Solo, {"k1"}, SkewConfigs, DynLimits, {1}, MaxTicks, {}, {FALSE})

\* the walkthrough: its configuration, and time for its three intervals
InitWalk ==
    InitWith(Solo, {"k1"}, WalkConfigs, DynLimits, {2}, WalkTicks, {"walk"}, BOOLEAN)

\* the per-key override example: a limiter that denies by default (rate 0)
\* and callers that pass the override
InitOverride ==
    InitWith(Solo, {"k1"}, {c \in Configs : c.RateLimit = 0}, {Override}, {1},
             MaxTicks, {"dynOK"}, BOOLEAN)

\* a return that leaves the connection as it is
ReturnHeld(p, c) == call' = [call EXCEPT ![p] = [c EXCEPT !.pc = "done"]]

\* caller p returns from its call with the locals c
Return(p, c) ==
    call' = [call EXCEPT ![p] = [c EXCEPT !.pc = "done",
                !.conn = IF c.conn = "none" THEN "none" ELSE "closed"]]

(***************************************************************************)
(* What is observed of the calls completed on a key (history, no program   *)
(* state): taken down when the caller leaves with the result.              *)
(***************************************************************************)

\* the call c changed or read the bucket and no step of it failed
Clean(c) == c.fail = "none"

\* the start of the interval in which the call read the clock
IntervalOf(c) == Truncate(c.readAt, l.interval)

\* the calls of the walkthrough: AllowN(k,2) at T0, Allow(k) right after,
\* Allow(k) one interval later, AllowN(k,2) two further intervals later and
\* Allow(k) right after; at counts intervals since T0
WalkScript ==
    << [op |-> "AllowN", n |-> 2, at |-> 0, ret |-> TRUE,  left |-> 0],
       [op |-> "Allow",  n |-> 1, at |-> 0, ret |-> FALSE, left |-> 0],
       [op |-> "Allow",  n |-> 1, at |-> 1, ret |-> TRUE,  left |-> 0],
       [op |-> "AllowN", n |-> 2, at |-> 3, ret |-> TRUE,  left |-> 0],
       [op |-> "Allow",  n |-> 1, at |-> 3, ret |-> FALSE, left |-> 0] >>

\* the call c is call i of the walkthrough, after the calls m has observed
OnScript(m, c, i) ==
    /\ i \in 1..Len(WalkScript)
    /\ IF i = 1 THEN m.seen = 0 ELSE m.walk = i - 1
    /\ c.op = WalkScript[i].op /\ c.n = WalkScript[i].n
    /\ Clean(c)
    /\ i > 1 => IntervalOf(c) = m.walkT + WalkScript[i].at * l.interval
    /\ c.nowAt # 0 => Truncate(c.nowAt, l.interval) = IntervalOf(c)

\* the tokens a clean call on the key is taken to have cost: n, or the one
\* token a key of the Redis limiter starts short of
Cost(c) == IF ~c.ret THEN 0 ELSE IF l.type = TypeRedis /\ c.fresh THEN 1 ELSE c.n

\* inMemoryLimiter.allowN(key, n, ratelimit, burst) of a limiter with this
\* interval, run by a single caller at the clock reading t on the bucket lim
\* it finds for the key (Nil: none)
InMemoryRun(lim, t, n, rate, burst, interval) ==
    LET tnow == Truncate(t, interval)
        found == IF lim = Nil THEN LimNew(rate, burst) ELSE lim
        sized == IF found.burst # burst THEN LimSetBurstAt(found, tnow, burst) ELSE found
        paced == IF sized.limit # rate THEN LimSetLimitAt(sized, tnow, rate) ELSE sized
    IN  LimAllowN(paced, tnow, n)

\* m: the observations before the call c on its key; only what env.watch
\* names is kept
Observe(m, c) ==
    LET w == IF l.type = TypeDisabled THEN {} ELSE env.watch
        \* an Allow(key) of the Redis limiter that did not fail and read the
        \* clock at one instant, after nothing but such calls on the key
        paired == /\ "twin" \in w /\ l.type = TypeRedis /\ m.paired
                  /\ Clean(c) /\ c.op = "Allow"
                  /\ c.nowAt \in {0, c.readAt}
        twin == InMemoryRun(m.twin, c.readAt, c.n, c.rate, c.burst, l.interval)
        allow == Clean(c) /\ c.op = "Allow"
        inRun == IF m.seen = 0 THEN allow
                 ELSE m.run > 0 /\ allow /\ IntervalOf(c) = m.t0
        zero == Clean(c) /\ c.rate = 0 /\ (m.seen = 0 \/ c.burst = m.zeroB)
        step == IF "walk" \in w /\ OnScript(m, c, m.walk + 1) THEN m.walk + 1 ELSE 0
    IN
    [seen |-> Min(m.seen + 1, 2),
     \* the first call on the key, when it took one token: its burst and its
     \* interval, remembered until the second call has returned
     first |-> IF "first" \in w /\ m.seen = 0 /\ Clean(c) /\ c.n = 1 /\ c.ret
               THEN [burst |-> c.burst, t |-> IntervalOf(c)]
               ELSE Nil,
     \* the start of the interval in which the last write-back (EXEC) of a
     \* call on the key read the clock
     wroteT |-> IF "wroteT" \in w /\ c.applied /\ ~c.fresh
                THEN Truncate(c.nowAt, l.interval)
                ELSE m.wroteT,
     \* so far only Allow(key), without failure, in the interval t0 of the
     \* first call: how many (run), counted up to one more than c.burst
     t0 |-> IF "run" \in w /\ inRun THEN IntervalOf(c) ELSE -1,
     run |-> IF "run" \in w /\ inRun THEN Min(m.run + 1, c.burst + 1) ELSE 0,
     \* the calls of the walkthrough made so far, and its T0
     walk |-> step,
     walkT |-> IF step = 0 THEN -1 ELSE IF step = 1 THEN IntervalOf(c) ELSE m.walkT,
     \* an AllowDynamic with an override of the limiter's rate and burst was allowed
     dynOK |-> "dynOK" \in w
               /\ (m.dynOK \/ (c.op = "AllowDynamic" /\ Clean(c) /\ c.ret
                                 /\ <<c.rate, c.burst>> # <<l.rate, l.burst>>)),
     \* every call so far had rate 0 and burst zeroB and did not fail (else
     \* -1), and the tokens they cost (admitted), counted up to zeroB + 1
     zeroB |-> IF "zeroB" \in w /\ zero THEN c.burst ELSE -1,
     admitted |-> IF "zeroB" \in w /\ zero
                  THEN Min(m.admitted + Cost(c), c.burst + 1) ELSE 0,
     \* the buckets rate.NewLimiter has made for the key (taken down by MemCreate)
     made |-> m.made,
     \* every call on the key had the limiter's own rate and burst (taken
     \* down by MemLookup); the start of the interval in which the key's
     \* bucket was made (by MemCreate) and the tokens admitted since (by
     \* MemAllowN)
     uniform |-> m.uniform, since |-> m.since, spent |-> m.spent,
     \* the bucket an in-memory limiter of the same Config holds after the
     \* same calls at the same instants, while every call on the key is
     \* paired, and whether it has given the same answers
     twin |-> IF paired THEN twin.lim ELSE Nil,
     paired |-> paired,
     agree |-> IF paired THEN m.agree /\ (c.ret = twin.ok) ELSE TRUE]

\* m after a call with rate and burst on its key has begun
Began(m, rate, burst) ==
    IF "held" \in env.watch
    THEN [m EXCEPT !.uniform = @ /\ rate = l.rate /\ burst = l.burst]
    ELSE m

\* the most a bucket of the limiter's rate and burst, full at the interval
\* start since, can have given out by the interval start t (in 1/Second token)
Budget(since, t) == l.burst * Second + l.rate * (t - since)

\* m after a bucket has been made for its key in the interval that starts at t
Made(m, t) ==
    IF "held" \in env.watch /\ m.since = -1 THEN [m EXCEPT !.since = t] ELSE m

\* m after the key's bucket has answered a call for n tokens with ok;
\* counted up to one token over the budget of the whole run
Answered(m, n, ok) ==
    IF "held" \in env.watch /\ ok
    THEN [m EXCEPT !.spent =
             Min(@ + n * Second, Budget(StartTime, StartTime + env.ticks) + Second)]
    ELSE m

(***************************************************************************)
(* The clock and the other clients of the Redis server.                    *)
(***************************************************************************)

\* the clock moves on; a return is an instant, so not while a caller is at it
Tick ==
    /\ now < StartTime + env.ticks
    /\ \A p \in Callers : call[p].pc # "done"
    /\ now' = now + 1
    /\ UNCHANGED <<l, store, limiters, call, mon, env>>

\* the wall clock is set back (time.Now() is the wall clock, and the stored
\* lastRefill carries no monotonic reading), but not before StartTime
ClockBack ==
    /\ \A p \in Callers : call[p].pc # "done"
    /\ \E t \in StartTime .. now - 1 : now' = t
    /\ UNCHANGED <<l, store, limiters, call, mon, env>>

\* another client leaves a list at key that redis.Scan cannot decode (between
\* the calls of the limiter's callers)
StoreCorrupt(key) ==
    /\ l # Nil /\ l.type = TypeRedis
    /\ key \in env.keys
    /\ store[key] # <<>>
    /\ store[key] # Garbage
    /\ \A p \in Callers : call[p].pc = "idle"
    /\ store' = [store EXCEPT ![key] = Garbage]
    /\ UNCHANGED <<l, now, limiters, call, mon, env>>

(***************************************************************************)
(* redisLimiter.allowN, one action per round trip to the server and per    *)
(* reading of the clock.                                                   *)
(***************************************************************************)

\* an error handler that lets every failed call through
OnErrorOpen(lim) == TRUE

\* "fail open on redis error": return l.failOpen
OnError(lim) == lim.failOpen

\* the tokens a new key is given: float64(burst-1)
InitialTokens(burst) == burst - 1

\* the intervals since the last update: since / l.interval, with
\* since := time.Since(time.Unix(last, 0).Truncate(l.interval))
Elapsed(last, t, interval) == Quot(t - Truncate(TimeUnix(last), interval), interval)

\* tokens = math.Min(tokens+allotment, float64(burst))
Refill(tokens, last, t, rate, burst, interval) ==
    Min(tokens + Elapsed(last, t, interval) * rate, burst)

\* a comparison that lets a call take one token more than the bucket holds
EnoughButOne(tokens, n) == ~(tokens + 1 < n)

\* a comparison that finds every bucket full enough
EnoughAny(tokens, n) == TRUE

\* the comparison before tokens are used: not (tokens < float64(n))
Enough(tokens, n) == ~(tokens < n)

\* c := l.pool.Get(); defer c.Close().  A failed dial gives a connection
\* on which every command returns the error.
RedisAllowN(p, op, key, n, rate, burst) ==
    /\ \E conn \in {"open"} \cup (IF TRUE \in env.faults THEN {"err"} ELSE {}) :
          call' = [call EXCEPT ![p] = [Idle EXCEPT !.pc = "LRANGE", !.op = op, !.key = key,
                      !.n = n, !.rate = rate, !.burst = burst, !.conn = conn]]
    /\ UNCHANGED <<l, now, store, limiters, mon, env>>

\* resp, err := redis.Values(c.Do("LRANGE", key, 0, 1))
RedisLRange(p) ==
    LET c == call[p] IN
    /\ c.pc = "LRANGE"
    /\ \E ioerr \in env.faults :
          IF c.conn = "err" \/ ioerr
          THEN Return(p, [c EXCEPT !.fail = "LRANGE", !.ret = OnError(l)])
          ELSE call' = [call EXCEPT ![p] = [c EXCEPT !.pc = "decode",
                           !.resp = LRange(store[c.key], 0, 1)]]
    /\ UNCHANGED <<l, now, store, limiters, mon, env>>

\* what follows the reply: for an absent key the clock is read for LPUSH;
\* otherwise the reply is scanned, the bucket refilled and n tokens taken
RedisDecode(p) ==
    LET c == call[p]
        s == Scan(c.resp)
        tokens == Refill(s.tokens, s.last, now, c.rate, c.burst, l.interval)
    IN
    /\ c.pc = "decode"
    /\ IF Len(c.resp) = 0
       THEN call' = [call EXCEPT ![p] = [c EXCEPT !.pc = "LPUSH", !.fresh = TRUE,
                        !.readAt = now, !.tnow = Unix(Truncate(now, l.interval))]]
       ELSE IF ~s.ok
       THEN Return(p, [c EXCEPT !.fail = "Scan", !.ret = OnError(l)])
       ELSE IF ~Enough(tokens, c.n)
       THEN Return(p, [c EXCEPT !.readAt = now, !.tokens = tokens, !.ret = FALSE])
       ELSE call' = [call EXCEPT ![p] = [c EXCEPT !.pc = "now", !.readAt = now,
                        !.tokens = tokens - c.n]]
    /\ UNCHANGED <<l, now, store, limiters, mon, env>>

\* _, err := redis.Int(c.Do("LPUSH", key, float64(burst-1), now)); a command
\* that returns an error may or may not have been executed by the server
RedisLPush(p) ==
    LET c == call[p] IN
    /\ c.pc = "LPUSH"
    /\ \E ioerr \in env.faults, applied \in BOOLEAN :
          /\ ~ioerr => applied
          /\ store' = [store EXCEPT ![c.key] =
                IF applied
                THEN LPush(@, FmtFloat(InitialTokens(c.burst)), FmtInt(c.tnow))
                ELSE @]
          /\ Return(p, [c EXCEPT !.applied = applied,
                                 !.fail = IF ioerr THEN "LPUSH" ELSE "none",
                                 !.ret = IF ioerr THEN OnError(l) ELSE TRUE])
    /\ UNCHANGED <<l, now, limiters, mon, env>>

\* now := time.Now().Truncate(l.interval).Unix()
RedisNow(p) ==
    LET c == call[p] IN
    /\ c.pc = "now"
    /\ call' = [call EXCEPT ![p] = [c EXCEPT !.pc = "EXEC", !.nowAt = now,
                   !.tnow = Unix(Truncate(now, l.interval))]]
    /\ UNCHANGED <<l, now, store, limiters, mon, env>>

\* MULTI; LSET key 0 tokens; LSET key 1 now; EXEC
RedisExec(p) ==
    LET c == call[p] IN
    /\ c.pc = "EXEC"
    /\ \E ioerr \in env.faults, applied \in BOOLEAN :
          /\ ~ioerr => applied
          /\ store' = [store EXCEPT ![c.key] =
                IF applied
                THEN LSet(LSet(@, 0, FmtFloat(c.tokens)), 1, FmtInt(c.tnow))
                ELSE @]
          /\ Return(p, [c EXCEPT !.applied = applied,
                                 !.fail = IF ioerr THEN "EXEC" ELSE "none",
                                 !.ret = IF ioerr THEN OnError(l) ELSE TRUE])
    /\ UNCHANGED <<l, now, limiters, mon, env>>

(***************************************************************************)
(* inMemoryLimiter.allowN, one action per critical section.                *)
(***************************************************************************)

\* a call that keeps its rate and burst as the limiter's own
InMemoryAllowNSticky(p, op, key, n, rate, burst) ==
    /\ call' = [call EXCEPT ![p] = [Idle EXCEPT !.pc = "lookup", !.op = op, !.key = key,
                   !.n = n, !.rate = rate, !.burst = burst]]
    /\ l' = [l EXCEPT !.rate = rate, !.burst = burst]
    /\ UNCHANGED <<now, store, limiters, mon, env>>

InMemoryAllowN(p, op, key, n, rate, burst) ==
    /\ call' = [call EXCEPT ![p] = [Idle EXCEPT !.pc = "lookup", !.op = op, !.key = key,
                   !.n = n, !.rate = rate, !.burst = burst]]
    /\ UNCHANGED <<l, now, store, limiters, mon, env>>

\* l.mux.RLock(); limiter, ok := l.limiters[key]; l.mux.RUnlock()
MemLookup(p) ==
    LET c == call[p] IN
    /\ c.pc = "lookup"
    /\ call' = [call EXCEPT ![p] = [c EXCEPT !.pre = limiters[c.key],
                   !.fresh = (limiters[c.key] = Nil),
                   !.lim = IF limiters[c.key] = Nil THEN 0 ELSE mon[c.key].made,
                   !.pc = IF limiters[c.key] = Nil THEN "create" ELSE "clock"]]
    /\ mon' = [mon EXCEPT ![c.key] = Began(@, c.rate, c.burst)]
    /\ UNCHANGED <<l, now, store, limiters, env>>

\* a second look that finds no bucket, whatever the map holds
NeverLooksAgain(key) == TRUE

\* limiter, ok = l.limiters[key]; if !ok (under l.mux.Lock())
StillAbsent(key) == limiters[key] = Nil

\* l.mux.Lock(); look again; create and store the limiter if still absent
MemCreate(p) ==
    LET c == call[p]
        made == IF StillAbsent(c.key) THEN mon[c.key].made + 1 ELSE mon[c.key].made
    IN
    /\ c.pc = "create"
    /\ limiters' = [limiters EXCEPT ![c.key] =
          IF StillAbsent(c.key) THEN LimNew(c.rate, c.burst) ELSE @]
    /\ mon' = [mon EXCEPT ![c.key] =
          [Made(@, Truncate(now, l.interval)) EXCEPT !.made = made]]
    /\ call' = [call EXCEPT ![p] = [c EXCEPT !.pc = "clock", !.lim = made]]
    /\ UNCHANGED <<l, now, store, env>>

\* now := time.Now().Truncate(l.interval)
MemNow(p) ==
    LET c == call[p] IN
    /\ c.pc = "clock"
    /\ call' = [call EXCEPT ![p] = [c EXCEPT !.pc = "burst", !.readAt = now,
                   !.tnow = Truncate(now, l.interval)]]
    /\ UNCHANGED <<l, now, store, limiters, mon, env>>

\* if limiter.Burst() != burst { limiter.SetBurstAt(now, burst) }: the
\* comparison ("burst") and the update ("setburst") each take the bucket's
\* lock, one after the other
MemSetBurst(p) ==
    LET c == call[p] IN
    /\ c.pc \in {"burst", "setburst"}
    /\ limiters' = [limiters EXCEPT ![c.key] =
          IF c.pc = "setburst" THEN LimSetBurstAt(@, c.tnow, c.burst) ELSE @]
    /\ call' = [call EXCEPT ![p] = [c EXCEPT !.pc =
          IF c.pc = "burst" /\ limiters[c.key].burst # c.burst
          THEN "setburst" ELSE "limit"]]
    /\ UNCHANGED <<l, now, store, mon, env>>

\* if limiter.Limit() != rate.Limit(ratelimit) { limiter.SetLimitAt(now, ...) }:
\* the comparison ("limit") and the update ("setlimit"), likewise
MemSetLimit(p) ==
    LET c == call[p] IN
    /\ c.pc \in {"limit", "setlimit"}
    /\ limiters' = [limiters EXCEPT ![c.key] =
          IF c.pc = "setlimit" THEN LimSetLimitAt(@, c.tnow, c.rate) ELSE @]
    /\ call' = [call EXCEPT ![p] = [c EXCEPT !.pc =
          IF c.pc = "limit" /\ limiters[c.key].limit # c.rate
          THEN "setlimit" ELSE "allow"]]
    /\ UNCHANGED <<l, now, store, mon, env>>

\* one token taken, whatever n
MemTakeOne(lim, t, n) == LimAllowN(lim, t, 1)

\* limiter.AllowN(now, n)
MemTake(lim, t, n) == LimAllowN(lim, t, n)

\* an AllowN that leaves every bucket of the map as it leaves the key's
MemAllowNAll(p) ==
    LET c == call[p]
        r == MemTake(limiters[c.key], c.tnow, c.n)
    IN
    /\ c.pc = "allow"
    /\ limiters' = [k \in Keys |-> IF limiters[k] = Nil THEN Nil ELSE r.lim]
    /\ mon' = [mon EXCEPT ![c.key] = Answered(@, c.n, r.ok)]
    /\ Return(p, [c EXCEPT !.ret = r.ok])
    /\ UNCHANGED <<l, now, store, env>>

\* return limiter.AllowN(now, n)
MemAllowN(p) ==
    LET c == call[p]
        r == MemTake(limiters[c.key], c.tnow, c.n)
    IN
    /\ c.pc = "allow"
    /\ limiters' = [limiters EXCEPT ![c.key] = r.lim]
    /\ mon' = [mon EXCEPT ![c.key] = Answered(@, c.n, r.ok)]
    /\ Return(p, [c EXCEPT !.ret = r.ok])
    /\ UNCHANGED <<l, now, store, env>>

(***************************************************************************)
(* disabledLimiter: every method returns true.                             *)
(***************************************************************************)
\* a limiter that still holds a call to the burst it was given
DisabledAllowNCapped(p, op, key, n, rate, burst) ==
    /\ Return(p, [Idle EXCEPT !.op = op, !.key = key, !.n = n, !.rate = rate,
                              !.burst = burst, !.ret = (n <= burst)])
    /\ UNCHANGED <<l, now, store, limiters, mon, env>>

DisabledAllowN(p, op, key, n, rate, burst) ==
    /\ Return(p, [Idle EXCEPT !.op = op, !.key = key, !.n = n, !.rate = rate,
                              !.burst = burst, !.ret = TRUE])
    /\ UNCHANGED <<l, now, store, limiters, mon, env>>

(***************************************************************************)
(* The Limiter interface: a caller that is in no call makes one.           *)
(***************************************************************************)
allowN(p, op, key, n, rate, burst) ==
    CASE l.type = TypeRedis -> RedisAllowN(p, op, key, n, rate, burst)
      [] l.type = TypeInMemory -> InMemoryAllowN(p, op, key, n, rate, burst)
      [] l.type = TypeDisabled -> DisabledAllowN(p, op, key, n, rate, burst)

\* caller p may call the method op of l on key
Ready(p, op, key) ==
    /\ l # Nil
    /\ op \in env.ops[p] /\ key \in env.keys
    /\ call[p].pc = "idle"

\* the rate and burst of a call without its own: those of the limiter (the
\* disabled limiter has none and ignores them)
DefaultRate == IF l.type = TypeDisabled THEN 0 ELSE l.rate
DefaultBurst == IF l.type = TypeDisabled THEN 0 ELSE l.burst

Allow(p, key) ==
    /\ Ready(p, "Allow", key)
    /\ allowN(p, "Allow", key, 1, DefaultRate, DefaultBurst)

AllowN(p, key, n) ==
    /\ Ready(p, "AllowN", key)
    /\ n \in env.ns
    /\ allowN(p, "AllowN", key, n, DefaultRate, DefaultBurst)

AllowDynamic(p, key, rate, burst) ==
    /\ Ready(p, "AllowDynamic", key)
    /\ <<rate, burst>> \in env.dyn
    /\ allowN(p, "AllowDynamic", key, 1, rate, burst)

AllowNDynamic(p, key, n, rate, burst) ==
    /\ Ready(p, "AllowNDynamic", key)
    /\ n \in env.ns
    /\ <<rate, burst>> \in env.dyn
    /\ allowN(p, "AllowNDynamic", key, n, rate, burst)

\* the caller has taken the result of its call and goes on
Leave(p) ==
    LET c == call[p] IN
    /\ c.pc = "done"
    /\ call' = [call EXCEPT ![p] = Idle]
    /\ mon' = [mon EXCEPT ![c.key] = Observe(@, c)]
    /\ UNCHANGED <<l, now, store, limiters, env>>

Next ==
    \/ Tick
    \/ \E key \in Keys : StoreCorrupt(key)
    \/ \E p \in Callers, key \in Keys : Allow(p, key)
    \/ \E p \in Callers, key \in Keys, n \in 0..MaxN : AllowN(p, key, n)
    \/ \E p \in Callers, key \in Keys, d \in DynLimits \cup {Override} :
          AllowDynamic(p, key, d[1], d[2])
    \/ \E p \in Callers, key \in Keys, n \in 0..MaxN, d \in DynLimits \cup {Override} :
          AllowNDynamic(p, key, n, d[1], d[2])
    \/ \E p \in Callers : RedisLRange(p)
    \/ \E p \in Callers : RedisDecode(p)
    \/ \E p \in Callers : RedisLPush(p)
    \/ \E p \in Callers : RedisNow(p)
    \/ \E p \in Callers : RedisExec(p)
    \/ \E p \in Callers : MemLookup(p)
    \/ \E p \in Callers : MemCreate(p)
    \/ \E p \in Callers : MemNow(p)
    \/ \E p \in Callers : MemSetBurst(p)
    \/ \E p \in Callers : MemSetLimit(p)
    \/ \E p \in Callers : MemAllowN(p)
    \/ \E p \in Callers : Leave(p)

Spec == Init /\ [][Next]_vars

SpecHistory == InitHistory /\ [][Next]_vars

SpecNew == InitNew /\ [][Next]_vars

SpecRace == InitRace /\ [][Next]_vars

SpecSerial == InitSerial /\ [][Next]_vars

SpecTwin == InitTwin /\ [][Next]_vars

SpecKeys == InitKeys /\ [][Next]_vars

\* the steps of the program and of a clock that can be set back
NextSkew ==
    \/ Next
    \/ ClockBack

SpecSkew == InitSkew /\ [][NextSkew]_vars

SpecWalk == InitWalk /\ [][Next]_vars

SpecOverride == InitOverride /\ [][Next]_vars

(***************************************************************************)
(* Rate() and Burst(): the methods the tests call on a Limiter              *)
(* (TestRedisRate, TestRedisBurst, TestInMemoryLimiter,                     *)
(* TestDisabledLimiter); they report the defaults the limiter was made      *)
(* with, and the disabled limiter reports math.MaxFloat64 and 0.            *)
(***************************************************************************)

\* stands for math.MaxFloat64: above every rate a Config holds
MaxFloat64 == 2147483647

Rate(lim) == IF lim.type = TypeDisabled THEN MaxFloat64 ELSE lim.rate

Burst(lim) == IF lim.type = TypeDisabled THEN 0 ELSE lim.burst

(***************************************************************************)
(* Properties.  The call a property speaks of is the one whose caller is   *)
(* at "done": it has returned and the caller has not yet gone on.          *)
(***************************************************************************)

\* the calls that have just returned
Returned == {p \in Callers : call[p].pc = "done"}

\* the record the next read of the key decodes: LRANGE key 0 1, scanned
Record(key) == Scan(LRange(store[key], 0, 1))

\* the tokens of the record a call read, refilled at the call's clock reading
Refilled(c) ==
    LET s == Scan(c.resp)
    IN  Refill(s.tokens, s.last, c.readAt, c.rate, c.burst, l.interval)

\* C1: a call of the Redis limiter in which a step failed (the connection,
\* LRANGE, LPUSH, the scan of the two fields, or EXEC after the call had
\* decided to accept) returns l.failOpen; a call in which no step failed
\* returns the decision of the bucket, whatever l.failOpen is: true for an
\* absent key, else whether the refilled tokens cover n.
FailOpenLaw ==
    \A p \in Returned :
        LET c == call[p] IN
        l.type = TypeRedis =>
            /\ c.fail # "none" => c.ret = l.failOpen
            /\ c.fail = "none" => c.ret = (c.fresh \/ Refilled(c) >= c.n)

\* C1 happens: EXEC failed after the call had decided to accept and the
\* server had executed the write, and the call returned failOpen = false
FailOpenLawWitness ==
    \E p \in Returned :
        /\ l.type = TypeRedis /\ ~l.failOpen
        /\ call[p].fail = "EXEC" /\ call[p].applied /\ ~call[p].ret

\* C2: a call of the Redis limiter on an existing key, no step failing,
\* that read the record (tokens, lastRefill) when k whole intervals had
\* elapsed since lastRefill is accepted iff min(tokens + k*rate, burst) >= n
\* and, accepted, leaves the record (min(tokens + k*rate, burst) - n, nowT).
RefillLaw ==
    \A p \in Returned :
        LET c == call[p]
            s == Scan(c.resp)
            k == (c.readAt - TimeUnix(s.last)) \div l.interval
            avail == Min(s.tokens + k * c.rate, c.burst)
        IN  (l.type = TypeRedis /\ ~c.fresh /\ c.fail = "none") =>
                /\ c.ret = (avail >= c.n)
                /\ c.ret => Record(c.key) =
                       [ok |-> TRUE, tokens |-> avail - c.n,
                        last |-> Unix(Truncate(c.nowAt, l.interval))]

\* C3: the first call of the Redis limiter on an absent key, no step
\* failing, returns true and leaves a record that the next read decodes to
\* tokens = burst - 1 and lastRefill = nowT.
FirstTouch ==
    \A p \in Returned :
        LET c == call[p] IN
        (l.type = TypeRedis /\ c.fresh /\ c.fail = "none") =>
            /\ c.ret
            /\ Record(c.key) = [ok |-> TRUE, tokens |-> c.burst - 1, last |-> c.tnow]

\* the backends that keep a bucket per key
Stateful == {TypeRedis, TypeInMemory}

\* the tokens the key of the returned call c holds at the call's time, in
\* units of 1/Second token: what the next read of the record decodes, or
\* the tokens of the key's rate.Limiter
Available(c) ==
    IF l.type = TypeRedis THEN Record(c.key).tokens * Second
    ELSE LimAdvance(limiters[c.key], c.tnow)

\* C4: with rate 1, burst 2 and an interval of one second, on a fresh key
\* and for each stateful backend, the calls of the walkthrough return, in
\* turn, true (AllowN(k,2) at T0, leaving 0 tokens), false (Allow(k) right
\* after), true (Allow(k) one interval later, leaving 0 tokens), true
\* (AllowN(k,2) two further intervals later: the bucket held 2) and false
\* (Allow(k) right after).
Walkthrough ==
    \A p \in Returned :
        LET c == call[p]
            m == mon[c.key]
            i == m.walk + 1
        IN  (l.type \in Stateful /\ l.rate = 1 /\ l.burst = 2 /\ l.interval = Second
             /\ OnScript(m, c, i)) =>
                /\ c.ret = WalkScript[i].ret
                /\ c.ret => Available(c) = WalkScript[i].left * Second

\* C5: of the Allow(key) calls of the Redis limiter (burst B >= 1) made on a
\* fresh key within the interval of the first, no step failing, exactly the
\* first B return true; and a refilled bucket never holds more than B.
BurstBound ==
    \A p \in Returned :
        LET c == call[p]
            m == mon[c.key]
        IN  (l.type = TypeRedis /\ c.op = "Allow" /\ Clean(c) /\ c.burst >= 1
             /\ (m.seen = 0 \/ (m.run > 0 /\ IntervalOf(c) = m.t0))) =>
                /\ c.ret = (m.run < c.burst)
                /\ ~c.fresh => Refilled(c) <= c.burst

DenyByDefault ==
    \A p \in Returned :
        LET c == call[p] IN
        (l.type \in Stateful /\ l.rate = 0 /\ c.op = "Allow" /\ Clean(c)
         /\ mon[c.key].dynOK) =>
            /\ c.rate = l.rate /\ c.burst = l.burst
            /\ ~c.ret

\* C8: when every call on a key had rate 0 and the same burst B >= 1 and
\* none failed, the tokens the calls were allowed (one for the first call of
\* the Redis limiter, n for every other) never total more than B: so once B
\* are spent every call with n >= 1 is rejected.
NoReplenish ==
    \A p \in Returned :
        LET c == call[p]
            m == mon[c.key]
        IN  (l.type \in Stateful /\ Clean(c) /\ c.rate = 0 /\ c.burst >= 1
             /\ (m.seen = 0 \/ m.zeroB = c.burst)) =>
                m.admitted + Cost(c) <= c.burst

\* C9: a call of the Redis limiter that reads the record in the interval in
\* which the last write-back read the clock computes zero elapsed
\* intervals, whatever the interval; so it is rejected when the record holds
\* no token and n >= 1.
SameIntervalNoRefill ==
    \A p \in Returned :
        LET c == call[p]
            m == mon[c.key]
            s == Scan(c.resp)
        IN  (l.type = TypeRedis /\ ~c.fresh /\ c.readAt # 0
             /\ m.wroteT >= 0 /\ IntervalOf(c) = m.wroteT) =>
                /\ Elapsed(s.last, c.readAt, l.interval) = 0
                /\ (Clean(c) /\ s.tokens = 0 /\ c.n >= 1) => ~c.ret

\* C10: in the in-memory limiter, the first call on a key with n = 1 and
\* burst B >= 1 returns true, and the call that follows it in the same
\* interval with the same burst and n = B returns false.
FullAtBirth ==
    \A p \in Returned :
        LET c == call[p]
            m == mon[c.key]
        IN  l.type = TypeInMemory =>
                /\ (c.fresh /\ c.n = 1 /\ c.burst >= 1) => c.ret
                /\ (m.first # Nil /\ c.burst = m.first.burst /\ c.n = c.burst
                    /\ IntervalOf(c) = m.first.t) => ~c.ret

\* C10 happens: B = 2 more tokens were refused right after the first call
FullAtBirthWitness ==
    \E p \in Returned :
        LET c == call[p]
            m == mon[c.key]
        IN  /\ l.type = TypeInMemory /\ m.first # Nil
            /\ c.burst = 2 /\ m.first.burst = 2 /\ c.n = 2
            /\ IntervalOf(c) = m.first.t /\ ~c.ret

\* C11: every call of the disabled limiter returns true, whatever the key,
\* n, rate and burst and whatever calls came before, and the limiter keeps
\* nothing per key: it has no field, no list is stored and no bucket made.
DisabledAllows ==
    (l # Nil /\ l.type = TypeDisabled) =>
        /\ \A p \in Returned : call[p].ret
        /\ l = [type |-> TypeDisabled]
        /\ store = [k \in Keys |-> <<>>]
        /\ limiters = [k \in Keys |-> Nil]

\* C11 happens: after two earlier calls on the key, the disabled limiter
\* has allowed a call for more than the burst it was given
DisabledAllowsWitness ==
    \E p \in Returned :
        LET c == call[p] IN
        /\ l.type = TypeDisabled /\ mon[c.key].seen = 2
        /\ c.op = "AllowNDynamic" /\ c.n > c.burst /\ c.ret

FactoryByType ==
    /\ env.config.Type \in Types => (l # Nil /\ l.type = env.config.Type)
    /\ env.config.Type \notin Types => l = Nil

\* C13 happens: New was given the Type of TestBadLimiterType and returned nil
FactoryByTypeWitness == env.config.Type = -1 /\ l = Nil /\ now > StartTime

\* C14: a call of the Redis limiter on an existing key whose refilled
\* tokens are below n, no step failing, returns false and writes nothing:
\* the record after the call is the record it read, so neither the refill
\* nor a later lastRefill is stored.
RejectedNoWrite ==
    \A p \in Returned :
        LET c == call[p]
            s == Scan(c.resp)
            avail == Min(s.tokens + Elapsed(s.last, c.readAt, l.interval) * c.rate,
                         c.burst)
        IN  (l.type = TypeRedis /\ ~c.fresh /\ c.readAt # 0 /\ c.fail = "none"
             /\ avail < c.n) =>
                /\ ~c.ret /\ ~c.applied
                /\ store[c.key] = c.resp
                /\ Record(c.key) = s

\* C14 happens: a call was rejected although an interval had passed and
\* refilled a token, and the record still holds the tokens it held
RejectedNoWriteWitness ==
    \E p \in Returned :
        LET c == call[p]
            s == Scan(c.resp)
        IN  /\ l.type = TypeRedis /\ ~c.fresh /\ c.readAt # 0 /\ c.fail = "none"
            /\ ~c.ret /\ c.rate = 1
            /\ Elapsed(s.last, c.readAt, l.interval) = 1
            /\ s.tokens < c.tokens /\ Record(c.key).tokens = s.tokens

\* C15: the tokens stored for a key of the Redis limiter are never negative
\* and never above the burst in effect for the key, that of the last call
\* on it: so after every call in which no step failed, whatever its n and
\* burst (0 and a burst lower than before included).
BucketInvariant ==
    \A p \in Returned :
        LET c == call[p] IN
        (l.type = TypeRedis /\ c.fail = "none" /\ Record(c.key).ok) =>
            /\ Record(c.key).tokens >= 0
            /\ Record(c.key).tokens <= c.burst

\* C16: the lastRefill stored for a key of the Redis limiter never decreases
\* (the clock never goes back), whatever the calls and however the steps of
\* two callers on the key interleave: no write-back (a step that keeps the
\* length of the list) stores a lastRefill below the one it replaces.
LastRefillMonotone ==
    [][\A k \in Keys :
          (Record(k).ok /\ Record(k)'.ok /\ Len(store[k])' = Len(store[k])) =>
              Record(k)'.last >= Record(k).last]_vars

\* two callers whose calls have both returned
BothReturned == {pq \in Returned \X Returned : pq[1] # pq[2]}

\* C19: the read and the write-back of a call of the Redis limiter are two
\* steps, so two callers can read the same record of a key and both be
\* accepted; the record then holds the tokens one of them computed, the
\* decrement of the other being overwritten.
LostDecrement ==
    \A pq \in BothReturned :
        LET c == call[pq[1]]
            d == call[pq[2]]
        IN  (l.type = TypeRedis /\ c.key = d.key /\ ~c.fresh /\ ~d.fresh
             /\ c.resp = d.resp /\ Clean(c) /\ Clean(d) /\ c.ret /\ d.ret) =>
                /\ Record(c.key).ok
                /\ Record(c.key).tokens \in {c.tokens, d.tokens}

\* C19 happens: the record held 1 token, two Allow calls read it in the same
\* interval and both returned true, and the record holds 0 tokens
LostDecrementWitness ==
    \E pq \in BothReturned :
        LET c == call[pq[1]]
            d == call[pq[2]]
        IN  /\ l.type = TypeRedis /\ c.key = d.key /\ ~c.fresh /\ ~d.fresh
            /\ c.resp = d.resp /\ Clean(c) /\ Clean(d) /\ c.ret /\ d.ret
            /\ c.op = "Allow" /\ d.op = "Allow"
            /\ Scan(c.resp).tokens = 1 /\ Refilled(c) = 1 /\ Refilled(d) = 1
            /\ IntervalOf(c) = IntervalOf(d)
            /\ Record(c.key).tokens = 0

\* C20: the record of a key in the store is made once: the list at a key is
\* absent or holds exactly two elements, also after two callers have
\* made the first access to the key at the same time.
AllocatedOnce == \A k \in Keys : Len(store[k]) \in {0, 2}

\* C17: when the lastRefill a call of the Redis limiter reads is later than
\* its clock reading, the elapsed intervals count as zero: the refill leaves
\* min(tokens, burst), so a call with n <= min(tokens, burst), no step
\* failing, is accepted and leaves min(tokens, burst) - n.
SkewCountsZero ==
    \A p \in Returned :
        LET c == call[p]
            s == Scan(c.resp)
        IN  (l.type = TypeRedis /\ ~c.fresh /\ c.readAt # 0 /\ Clean(c)
             /\ TimeUnix(s.last) > c.readAt /\ c.n <= Min(s.tokens, c.burst)) =>
                /\ c.ret
                /\ c.tokens = Min(s.tokens, c.burst) - c.n

\* the positions of a call of the Redis limiter between pool.Get and return
InRedisCall == {"LRANGE", "decode", "LPUSH", "now", "EXEC"}

\* C18: a call of the Redis limiter holds the connection it got from the
\* pool while it runs and has closed it when it returns, on every exit path
\* (read error, initialisation, scan error, rejection, write-back); a caller
\* in no call holds none.
ConnReleased ==
    \A p \in Callers :
        LET c == call[p] IN
        (l # Nil /\ l.type = TypeRedis) =>
            /\ c.pc \in InRedisCall => c.conn \in {"open", "err"}
            /\ c.pc = "done" => c.conn = "closed"
            /\ c.pc = "idle" => c.conn = "none"

\* C18 happens: a call has returned through the scan error exit, closed
ConnReleasedWitness ==
    \E p \in Returned :
        /\ l.type = TypeRedis
        /\ call[p].fail = "Scan" /\ call[p].conn = "closed"

\* the positions of a call of the in-memory limiter that has its bucket
HasBucket == {"clock", "burst", "setburst", "limit", "setlimit", "allow"}

\* C21: whatever the interleaving of the first calls on a key of the
\* in-memory limiter, one bucket is made and stored for the key, it stays
\* (never replaced, never removed), and every caller holds that bucket.
OneBucket ==
    \A k \in Keys :
        /\ mon[k].made = IF limiters[k] = Nil THEN 0 ELSE 1
        /\ \A p \in Callers :
              (l.type = TypeInMemory /\ call[p].key = k /\ call[p].pc \in HasBucket) =>
                  /\ limiters[k] # Nil
                  /\ call[p].lim = 1

\* C21 happens: two callers both found the key absent and both went through
\* the exclusive section
OneBucketWitness ==
    \E p, q \in Callers :
        /\ p # q /\ l.type = TypeInMemory
        /\ call[p].key = call[q].key
        /\ call[p].fresh /\ call[q].fresh
        /\ call[p].pc \in HasBucket /\ call[q].pc \in HasBucket

\* C22: in the in-memory limiter, when every call on a key has the
\* limiter's own rate and burst, no interval admits more tokens than the
\* bucket held when it began, whatever the interleaving of the callers; so
\* the tokens admitted on the key since its bucket was made are never more
\* than the full bucket and rate tokens for each interval that began since.
NoOverAdmission ==
    \A k \in Keys :
        (l.type = TypeInMemory /\ mon[k].uniform /\ mon[k].since # -1) =>
            mon[k].spent <= Budget(mon[k].since, Truncate(now, l.interval))

\* C23: for one Config (any interval) and one timed sequence of Allow(key)
\* by a single caller on a fresh key, the Redis limiter and the in-memory
\* limiter give the same answer to every call.
SameDecisions ==
    \A k \in Keys :
        (l.type = TypeRedis /\ mon[k].paired /\ mon[k].seen > 0) => mon[k].agree

\* the calls of the in-memory limiter that have returned after they found a
\* bucket whose rate or burst is not theirs
Retuned ==
    {p \in Returned : /\ l.type = TypeInMemory /\ call[p].pre # Nil
                      /\ \/ call[p].pre.limit # call[p].rate
                         \/ call[p].pre.burst # call[p].burst}

\* C24: a call of the in-memory limiter with a rate or burst other than the
\* bucket's brings the tokens up to its now with the bucket's previous rate,
\* capped at its previous burst; the call's burst caps them for its own
\* decision, and the call's rate and burst count from its now on.
NotRetroactive ==
    \A p \in Retuned :
        LET c == call[p]
            lim == limiters[c.key]
            avail == Min(LimAdvance(c.pre, c.tnow), c.burst * Second)
        IN  /\ c.ret = (c.n <= c.burst /\ avail >= c.n * Second)
            /\ lim.limit = c.rate /\ lim.burst = c.burst /\ lim.last = c.tnow
            /\ LimAdvance(lim, c.tnow) = avail - (IF c.ret THEN c.n * Second ELSE 0)

\* C24 happens: time has passed since the bucket's last event, and the
\* call's rate and burst would have accrued otherwise over it
NotRetroactiveWitness ==
    \E p \in Retuned :
        LET c == call[p] IN
        /\ c.pre.last > 0 /\ c.tnow > c.pre.last
        /\ LimAdvance(c.pre, c.tnow) #
              LimAdvance([c.pre EXCEPT !.limit = c.rate, !.burst = c.burst], c.tnow)

\* C25: in the in-memory limiter the answer to a call is computed on a
\* bucket that has the rate and burst of that call, whatever other callers
\* on the key do between the call's update of the bucket and its AllowN.
AnsweredAsSupplied ==
    [][\A p \in Callers :
          (l.type = TypeInMemory /\ call[p].pc = "allow" /\ call'[p].pc = "done") =>
              /\ limiters[call[p].key].burst = call[p].burst
              /\ limiters[call[p].key].limit = call[p].rate]_vars

\* the key of the call in which caller p takes this step
StepKey(p) == IF call[p].pc = "idle" THEN call'[p].key ELSE call[p].key

\* C26: a step of a call on a key, whatever the call's outcome, leaves the
\* stored list (tokens, lastRefill) and the bucket (tokens, last, rate and
\* burst) of every other key as they are.
KeyIsolation ==
    [][\A p \in Callers :
          call'[p] # call[p] =>
              \A k \in Keys \ {StepKey(p)} :
                  store'[k] = store[k] /\ limiters'[k] = limiters[k]]_vars

\* C26 happens: a call on a key has been rejected while another key has
\* state as well
KeyIsolationWitness ==
    \E p \in Returned :
        LET c == call[p] IN
        /\ Clean(c) /\ ~c.ret
        /\ store[c.key] # <<>> \/ limiters[c.key] # Nil
        /\ \E k \in Keys \ {c.key} : store[k] # <<>> \/ limiters[k] # Nil

====
